---- MODULE Spec2Model ----
(***************************************************************************)
(* templatex-go: a Templatex wraps a text/template, reads an input text    *)
(* against it (Parse) and re-renders it (Execute).                         *)
(*                                                                         *)
(* Texts (input, literal spans, extracted values, output) are sequences of *)
(* one-character strings; offsets are byte counts, as in the Go code.      *)
(* Identifiers and number literals are TLA+ strings; Len gives their byte  *)
(* length.  A template text is given by its lexical items (literal spans   *)
(* and actions), from which Compile lays out the byte offsets that         *)
(* text/template/parse reports.                                            *)
(***************************************************************************)
EXTENDS Integers, Sequences, FiniteSets, TLC

(* ------------------------------ bounds --------------------------------- *)

MaxInput == 2
MaxItems == 2
MaxText == 1
MaxPad == 1
MaxResolutions == 2
MaxRead == 3

Alphabet == {"a", "1", " ", "\""}

Strings(n) == UNION {[1..k -> Alphabet] : k \in 0..n}

Inputs == Strings(MaxInput)

(* ------------------------------ errors --------------------------------- *)

NoError == "nil"
ErrorUnsupportedNode == "unsupported node"
ErrorInvalidNode == "invalid node"
ErrorUnsupportedFunction == "unsupported or unmapped function"
ErrorInputRequired == "input required"
\* errors.New("input does not match template") of the earlier revision
ErrInputMismatch == "input does not match template"
\* errors of the standard library that the code passes on
ErrEOF == "EOF"
ErrNegativeCount == "bufio: negative count"
ErrFieldDiscard == "failed to discard bytes read from field: EOF"
ErrFieldEval == "failed to evaluate field"
ErrFuncNotDefined == "template: function not defined"
ErrIncomplete == "template: incomplete or empty template"
ErrExecCall == "template: error calling function"
ErrExecArgs == "template: wrong number or type of args"
ErrExecField == "template: nil data; no entry for key"

\* errors.Is(err, target): fmt.Errorf("...%w", err) keeps the wrapped error.
ErrorsIs(err, target) ==
    \/ err = target
    \/ err = ErrFieldDiscard /\ target = ErrEOF

(* ------------------------------ readers -------------------------------- *)

Whitespace == {" ", "\t", "\n", "\r"}
Quotes == {"\"", "'"}

\* A bufio.Reader over a string: the text and the count of bytes consumed.
NoReader == [open |-> FALSE, text |-> <<>>, pos |-> 0]
NewReader(text) == [open |-> TRUE, text |-> text, pos |-> 0]

\* ReadUntil were it to leave out UnreadRune.
RECURSIVE ReadUntilConsuming(_, _)
ReadUntilConsuming(reader, delimiters) ==
    IF reader.pos >= Len(reader.text)
    THEN [result |-> <<>>, reader |-> reader, err |-> NoError]
    ELSE LET r == reader.text[reader.pos + 1] IN
         IF r \in delimiters
         THEN [result |-> <<>>, reader |-> [reader EXCEPT !.pos = @ + 1], err |-> NoError]
         ELSE LET rest == ReadUntilConsuming([reader EXCEPT !.pos = @ + 1], delimiters)
              IN  [rest EXCEPT !.result = <<r>> \o @]

\* ReadUntil: runes are read until end of input or until one is a delimiter,
\* which is unread.
RECURSIVE ReadUntil(_, _)
ReadUntil(reader, delimiters) ==
    IF reader.pos >= Len(reader.text)
    THEN [result |-> <<>>, reader |-> reader, err |-> NoError]
    ELSE LET r == reader.text[reader.pos + 1] IN
         IF r \in delimiters
         THEN [result |-> <<>>, reader |-> reader, err |-> NoError]
         ELSE LET rest == ReadUntil([reader EXCEPT !.pos = @ + 1], delimiters)
              IN  [rest EXCEPT !.result = <<r>> \o @]

ReadUntilWhitespace(reader) == ReadUntil(reader, Whitespace)

ReadQuotedString(reader) == ReadUntil(reader, Quotes)

ParseQuotedString(reader) ==
    LET v == ReadQuotedString(reader) IN
    IF v.err # NoError
    THEN [args |-> <<>>, reader |-> v.reader, err |-> v.err]
    ELSE [args |-> <<v.result>>, reader |-> v.reader, err |-> NoError]

ParseUntilWhiteSpace(reader) ==
    LET v == ReadUntilWhitespace(reader) IN
    IF v.err # NoError
    THEN [args |-> <<>>, reader |-> v.reader, err |-> v.err]
    ELSE [args |-> <<v.result>>, reader |-> v.reader, err |-> NoError]

\* bufio.Reader.Discard(n): skips n bytes; with fewer left it skips them all
\* and returns io.EOF; a negative n is refused.
Discard(reader, n) ==
    IF n < 0 THEN [reader |-> reader, err |-> ErrNegativeCount]
    ELSE IF reader.pos + n <= Len(reader.text)
    THEN [reader |-> [reader EXCEPT !.pos = @ + n], err |-> NoError]
    ELSE [reader |-> [reader EXCEPT !.pos = Len(reader.text)], err |-> ErrEOF]

(* --------------------- the caller's plug-ins --------------------------- *)

\* The Validate functions of the test suite's FuncMap.  isValidUUID is the
\* caller's pattern check; over Alphabet the accepted identifiers are the
\* non-empty runs of "a".
isValidUUID(u) == u # <<>> /\ \A i \in 1..Len(u) : u[i] = "a"

Digits == {"0", "1", "2", "3", "4", "5", "6", "7", "8", "9"}

DigitValue(c) ==
    CASE c = "0" -> 0 [] c = "1" -> 1 [] c = "2" -> 2 [] c = "3" -> 3
      [] c = "4" -> 4 [] c = "5" -> 5 [] c = "6" -> 6 [] c = "7" -> 7
      [] c = "8" -> 8 [] c = "9" -> 9

\* strconv.Atoi on an unsigned decimal text: ok is FALSE for "" and for a
\* text with a character that is no digit.
RECURSIVE AtoiValue(_)
AtoiValue(s) ==
    IF s = <<>> THEN 0
    ELSE 10 * AtoiValue(SubSeq(s, 1, Len(s) - 1)) + DigitValue(s[Len(s)])

Atoi(s) ==
    IF s # <<>> /\ \A i \in 1..Len(s) : s[i] \in Digits
    THEN [ok |-> TRUE, value |-> AtoiValue(s)]
    ELSE [ok |-> FALSE, value |-> 0]

\* The value of a number literal of a template (a NumberNode's Int64).
NumberValue(text) == CASE text = "1" -> 1 [] text = "2" -> 2 [] text = "45" -> 45

ValidateIsUUID(uuid) ==
    IF ~isValidUUID(uuid)
    THEN [value |-> <<>>, err |-> "invalid UUID"]
    ELSE [value |-> uuid, err |-> NoError]

ValidateInRange(value, min, max) ==
    LET valueAsNumber == Atoi(value) IN
    IF ~valueAsNumber.ok THEN [value |-> <<>>, err |-> "strconv.Atoi: invalid syntax"]
    ELSE IF valueAsNumber.value < min \/ valueAsNumber.value > max
    THEN [value |-> <<>>, err |-> "value is not in range"]
    ELSE [value |-> value, err |-> NoError]

\* The FuncMap the caller passes to Funcs: name -> extractor.  The validator
\* of a name is ValidateIsUUID or ValidateInRange above.
TestFuncMap == [isUUID |-> "ParseQuotedString", inRange |-> "ParseUntilWhiteSpace"]

ValidatorParams(name) ==
    CASE name = "isUUID" -> <<"string">>
      [] name = "inRange" -> <<"string", "int", "int">>

\* A ParseFunc called on the reader.
CallParseFunc(fn, reader) ==
    CASE fn = "ParseUntilWhiteSpace" -> ParseUntilWhiteSpace(reader)
      [] fn = "ParseQuotedString" -> ParseQuotedString(reader)

\* A context value of the test suite's type data{Foo, Bar}, given by what
\* its fields render to (digits of Alphabet), and the nil context.
NilData == [valid |-> FALSE, Foo |-> <<>>, Bar |-> <<>>]
TestData == [valid |-> TRUE, Foo |-> <<"1">>, Bar |-> <<"1", "1">>]
Contexts == {TestData, NilData}

(* -------------------- text/template: parse ----------------------------- *)

\* The functions text/template defines for every template.
Builtins == {"and", "call", "html", "index", "slice", "js", "len", "not", "or",
             "print", "printf", "println", "urlquery",
             "eq", "ge", "gt", "le", "lt", "ne"}

\* Argument nodes of a command.
IdentifierNode(ident) == [type |-> "NodeIdentifier", ident |-> ident, text |-> <<>>]
FieldNode(ident) == [type |-> "NodeField", ident |-> ident, text |-> <<>>]
NumberNode(text) == [type |-> "NodeNumber", ident |-> text, text |-> <<>>]
\* &parse.StringNode{NodeType: parse.NodeString, Text: arg}: Quoted is empty
StringNode(text) == [type |-> "NodeString", ident |-> "", text |-> text]

\* Node.String() of an argument, by its byte length.
ArgStringLen(arg) ==
    CASE arg.type = "NodeIdentifier" -> Len(arg.ident)
      [] arg.type = "NodeField" -> 1 + Len(arg.ident)
      [] arg.type = "NodeNumber" -> Len(arg.ident)
      [] arg.type = "NodeString" -> 0

\* len(cmd.String()): the arguments joined by single spaces.
RECURSIVE CmdStringLen(_)
CmdStringLen(args) ==
    IF args = <<>> THEN 0
    ELSE IF Len(args) = 1 THEN ArgStringLen(args[1])
    ELSE ArgStringLen(args[1]) + 1 + CmdStringLen(Tail(args))

\* Lexical items of a template text.
\*   text:   a literal span s
\*   ident:  LEFT pad name arg.. [" | print"] pad RIGHT
\*   field:  LEFT pad .name pad RIGHT
\*   number: LEFT pad name pad RIGHT
\*   if:     LEFT "if ." name RIGHT s LEFT "end" RIGHT
TextItem(s) ==
    [k |-> "text", s |-> s, name |-> "", args |-> <<>>, pad |-> 0, more |-> 0]
ActionItem(k, name, args, pad, more) ==
    [k |-> k, s |-> <<>>, name |-> name, args |-> args, pad |-> pad, more |-> more]
IfItem(name, body) ==
    [k |-> "if", s |-> body, name |-> name, args |-> <<>>, pad |-> 0, more |-> 0]

RECURSIVE NumberArgs(_)
NumberArgs(args) ==
    IF args = <<>> THEN <<>> ELSE <<NumberNode(Head(args))>> \o NumberArgs(Tail(args))

\* Cmds[0].Args of an action item.
ItemArgs(it) ==
    CASE it.k = "ident" -> <<IdentifierNode(it.name)>> \o NumberArgs(it.args)
      [] it.k = "field" -> <<FieldNode(it.name)>>
      [] it.k = "number" -> <<NumberNode(it.name)>>
      [] it.k = "if" -> <<FieldNode(it.name)>>
      [] OTHER -> <<>>

PipeTailLen == 8   \* len(" | print")

\* Byte length of an item in the template text, with delimiters of ll and rl bytes.
ItemLen(it, ll, rl) ==
    CASE it.k = "text" -> Len(it.s)
      [] it.k = "if" -> ll + 3 + CmdStringLen(ItemArgs(it)) + rl + Len(it.s) + ll + 3 + rl
      [] OTHER -> ll + it.pad + CmdStringLen(ItemArgs(it)) + it.more * PipeTailLen
                  + it.pad + rl

\* The node of an item that starts at byte offset off.  An action's Pos is
\* the offset of the first token after the left delimiter and the spaces
\* that follow it (Tree.action: nextNonSpace, backup, peek).
ItemNode(it, off, ll) ==
    CASE it.k = "text" ->
           [type |-> "NodeText", pos |-> off, text |-> it.s, args |-> <<>>, more |-> 0]
      [] it.k = "if" ->
           [type |-> "NodeIf", pos |-> off + ll, text |-> it.s,
            args |-> ItemArgs(it), more |-> 0]
      [] OTHER ->
           [type |-> "NodeAction", pos |-> off + ll + it.pad, text |-> <<>>,
            args |-> ItemArgs(it), more |-> it.more]

RECURSIVE Layout(_, _, _, _)
Layout(items, off, ll, rl) ==
    IF items = <<>> THEN <<>>
    ELSE <<ItemNode(Head(items), off, ll)>>
         \o Layout(Tail(items), off + ItemLen(Head(items), ll, rl), ll, rl)

\* The lexer's delimiters: an empty string stands for the default.
DelimLen(d) == IF d = "" THEN 2 ELSE Len(d)

\* parse.Parse: a function name must be defined when the text is parsed.
Compile(items, funcs, left, right) ==
    IF \E i \in 1..Len(items) : items[i].k = "ident" /\ items[i].name \notin funcs \cup Builtins
    THEN [err |-> ErrFuncNotDefined, nodes |-> <<>>]
    ELSE [err |-> NoError, nodes |-> Layout(items, 0, DelimLen(left), DelimLen(right))]

IsSpaceText(s) == \A i \in 1..Len(s) : s[i] \in Whitespace

\* parse.IsEmptyTree of a root list
IsEmptyTree(nodes) ==
    \A i \in 1..Len(nodes) : nodes[i].type = "NodeText" /\ IsSpaceText(nodes[i].text)

NoTree == [set |-> FALSE, nodes |-> <<>>]

\* Template.Parse were it to keep a tree the template already has.
TemplateParseOnce(tree, items, funcs, left, right) ==
    LET c == Compile(items, funcs, left, right) IN
    IF c.err # NoError THEN [err |-> c.err, tree |-> tree]
    ELSE IF tree.set THEN [err |-> NoError, tree |-> tree]
    ELSE [err |-> NoError, tree |-> [set |-> TRUE, nodes |-> c.nodes]]

\* Template.Parse and AddParseTree: the new tree replaces the template's,
\* except an empty tree when the template has one.
TemplateParse(tree, items, funcs, left, right) ==
    LET c == Compile(items, funcs, left, right) IN
    IF c.err # NoError THEN [err |-> c.err, tree |-> tree]
    ELSE IF tree.set /\ IsEmptyTree(c.nodes) THEN [err |-> NoError, tree |-> tree]
    ELSE [err |-> NoError, tree |-> [set |-> TRUE, nodes |-> c.nodes]]

(* -------------------- text/template: execute --------------------------- *)

\* A field of the context value, rendered.
EvalField(name, data) ==
    IF ~data.valid THEN [err |-> ErrExecField, value |-> <<>>]
    ELSE IF name = "Foo" THEN [err |-> NoError, value |-> data.Foo]
    ELSE IF name = "Bar" THEN [err |-> NoError, value |-> data.Bar]
    ELSE [err |-> ErrExecField, value |-> <<>>]

\* An argument fits a parameter: a string literal for a string, a number
\* literal for an int.
ArgFits(arg, param) ==
    \/ param = "string" /\ arg.type = "NodeString"
    \/ param = "int" /\ arg.type = "NodeNumber"

\* The call of a validator with the argument nodes that follow its name.
CallValidator(name, args) ==
    LET params == ValidatorParams(name) IN
    IF Len(args) # Len(params) \/ \E i \in 1..Len(args) : ~ArgFits(args[i], params[i])
    THEN [err |-> ErrExecArgs, value |-> <<>>]
    ELSE LET r == IF name = "isUUID"
                  THEN ValidateIsUUID(args[1].text)
                  ELSE ValidateInRange(args[1].text, NumberValue(args[2].ident),
                                       NumberValue(args[3].ident))
         IN  IF r.err # NoError THEN [err |-> ErrExecCall, value |-> <<>>]
             ELSE [err |-> NoError, value |-> r.value]

\* The digits of a number literal, as printed.
NumberText(text) ==
    CASE text = "1" -> <<"1">> [] text = "2" -> <<"2">> [] text = "45" -> <<"4", "5">>

\* fmt.Sprint of string arguments: their concatenation.
RECURSIVE SprintArgs(_)
SprintArgs(args) ==
    IF args = <<>> THEN <<>>
    ELSE (IF Head(args).type = "NodeString" THEN Head(args).text
          ELSE NumberText(Head(args).ident)) \o SprintArgs(Tail(args))

\* The value of an action's pipeline: its first command; the commands that
\* follow are print, which leaves a text as it is.
EvalCommand(args, funcs, data) ==
    LET first == args[1] IN
    CASE first.type = "NodeField" -> EvalField(first.ident, data)
      [] first.type = "NodeNumber" -> [err |-> NoError, value |-> NumberText(first.ident)]
      [] first.type = "NodeIdentifier" ->
           IF first.ident \in funcs THEN CallValidator(first.ident, Tail(args))
           ELSE [err |-> NoError, value |-> SprintArgs(Tail(args))]
      [] OTHER -> [err |-> ErrExecArgs, value |-> <<>>]

\* The walk of the root list: a text is written as it is met, so what precedes
\* a failing action has been written when the error is returned.
RECURSIVE Walk(_, _, _, _)
Walk(nodes, funcs, data, out) ==
    IF nodes = <<>> THEN [err |-> NoError, out |-> out]
    ELSE LET node == Head(nodes) IN
         IF node.type = "NodeText"
         THEN Walk(Tail(nodes), funcs, data, out \o node.text)
         ELSE LET v == EvalCommand(node.args, funcs, data) IN
              IF v.err # NoError THEN [err |-> v.err, out |-> out]
              ELSE IF node.type = "NodeIf"
              THEN Walk(Tail(nodes), funcs, data,
                        IF v.value \notin {<<>>, <<"0">>} THEN out \o node.text ELSE out)
              ELSE Walk(Tail(nodes), funcs, data, out \o v.value)

\* Template.Execute
TemplateExecute(tree, funcs, data) ==
    IF ~tree.set THEN [err |-> ErrIncomplete, out |-> <<>>]
    ELSE Walk(tree.nodes, funcs, data, <<>>)

(* ------------------------- Templatex.Parse ----------------------------- *)

\* cmd.Args = append(cmd.Args[:1], append(newArgNodes, cmd.Args[1:]...)...)
RECURSIVE NewArgNodes(_)
NewArgNodes(args) ==
    IF args = <<>> THEN <<>> ELSE <<StringNode(Head(args))>> \o NewArgNodes(Tail(args))

\* The splice were it to put the new arguments behind the old ones.
SpliceArgsBehind(cmdArgs, args) ==
    cmdArgs \o NewArgNodes(args)

SpliceArgs(cmdArgs, args) ==
    SubSeq(cmdArgs, 1, 1) \o NewArgNodes(args) \o Tail(cmdArgs)

\* The bytes to discard before an action node.
BytesRead(currentPosition, previousPosition, ll, rl) ==
    IF previousPosition = 0
    THEN currentPosition - ll
    ELSE (currentPosition - previousPosition) - (ll + rl)

\* A Discard call of Parse, as recorded in the history variable discards.
DiscardCall(i, kind, n, reader) ==
    [node |-> i, kind |-> kind, n |-> n, remain |-> Len(reader.text) - reader.pos]

\* The state of Parse's loop: the nodes (rewritten in place), the reader,
\* previousPosition, the error that ended it and the Discard calls made.
ParseState(nodes, reader) ==
    [nodes |-> nodes, reader |-> reader, previousPosition |-> 0,
     err |-> NoError, calls |-> <<>>]

\* The identifier branch: the extractor of the name reads the value, which
\* is spliced into the command's arguments.
ParseIdentifier(st, i, pf) ==
    LET cmdArgs == st.nodes[i].args
        ident == cmdArgs[1].ident
    IN  IF ident \notin DOMAIN pf THEN [st EXCEPT !.err = ErrorUnsupportedFunction]
        ELSE LET r == CallParseFunc(pf[ident], st.reader) IN
             IF r.err # NoError THEN [st EXCEPT !.reader = r.reader, !.err = r.err]
             ELSE [st EXCEPT !.reader = r.reader,
                             !.nodes[i].args = SpliceArgs(cmdArgs, r.args)]

\* The field branch were it to compare the bytes it skips with the rendered
\* field.
ParseFieldCompared(st, i, data) ==
    LET v == EvalField(st.nodes[i].args[1].ident, data) IN
    IF v.err # NoError THEN [st EXCEPT !.err = ErrFieldEval]
    ELSE LET d == Discard(st.reader, Len(v.value))
             call == DiscardCall(i, "field", Len(v.value), st.reader)
             read == SubSeq(st.reader.text, st.reader.pos + 1, d.reader.pos)
         IN  [st EXCEPT !.reader = d.reader, !.calls = Append(@, call),
                        !.err = IF d.err # NoError THEN ErrFieldDiscard
                                ELSE IF read # v.value THEN ErrInputMismatch
                                ELSE NoError]

\* The field branch were it to drop the error of Discard.
ParseFieldUnchecked(st, i, data) ==
    LET v == EvalField(st.nodes[i].args[1].ident, data) IN
    IF v.err # NoError THEN [st EXCEPT !.err = ErrFieldEval]
    ELSE LET d == Discard(st.reader, Len(v.value))
             call == DiscardCall(i, "field", Len(v.value), st.reader)
         IN  [st EXCEPT !.reader = d.reader, !.calls = Append(@, call)]

\* The field branch: the field is rendered against data and as many bytes
\* as it renders to are discarded.
ParseField(st, i, data) ==
    LET v == EvalField(st.nodes[i].args[1].ident, data) IN
    IF v.err # NoError THEN [st EXCEPT !.err = ErrFieldEval]
    ELSE LET d == Discard(st.reader, Len(v.value))
             call == DiscardCall(i, "field", Len(v.value), st.reader)
         IN  [st EXCEPT !.reader = d.reader, !.calls = Append(@, call),
                        !.err = IF d.err # NoError THEN ErrFieldDiscard ELSE NoError]

\* One action node of the loop.
ParseAction(st, i, pf, ll, rl, data) ==
    LET node == st.nodes[i] IN
    IF node.args = <<>> THEN [st EXCEPT !.err = ErrorInvalidNode]
    ELSE
    LET cmdArg == node.args[1]
        currentPosition == node.pos
        bytesRead == BytesRead(currentPosition, st.previousPosition, ll, rl)
        d == Discard(st.reader, bytesRead)
        st1 == [st EXCEPT !.reader = d.reader,
                          !.calls = Append(@, DiscardCall(i, "before", bytesRead, st.reader))]
    IN  IF d.err # NoError THEN [st1 EXCEPT !.err = d.err]
        ELSE LET st2 == [st1 EXCEPT !.previousPosition =
                                        currentPosition + CmdStringLen(node.args)]
             IN  CASE cmdArg.type = "NodeIdentifier" -> ParseIdentifier(st2, i, pf)
                   [] cmdArg.type = "NodeField" -> ParseField(st2, i, data)
                   [] OTHER -> [st2 EXCEPT !.err = ErrorUnsupportedNode]

\* for _, node := range t.tpl.Tree.Root.Nodes: only action nodes are looked at.
RECURSIVE ParseNodes(_, _, _, _, _, _)
ParseNodes(st, i, pf, ll, rl, data) ==
    IF i > Len(st.nodes) \/ st.err # NoError THEN st
    ELSE IF st.nodes[i].type = "NodeAction"
    THEN ParseNodes(ParseAction(st, i, pf, ll, rl, data), i + 1, pf, ll, rl, data)
    ELSE ParseNodes(st, i + 1, pf, ll, rl, data)

(* ----------------- Templatex.Parse, earlier revision -------------------- *)

\* A text node is compared with the input rune by rune; the end of the
\* input ends the comparison of the node without an error.
RECURSIVE MatchText(_, _, _)
MatchText(reader, text, i) ==
    IF i > Len(text) THEN [reader |-> reader, err |-> NoError]
    ELSE IF reader.pos >= Len(reader.text) THEN [reader |-> reader, err |-> NoError]
    ELSE IF reader.text[reader.pos + 1] # text[i]
    THEN [reader |-> [reader EXCEPT !.pos = @ + 1], err |-> ErrInputMismatch]
    ELSE MatchText([reader EXCEPT !.pos = @ + 1], text, i + 1)

\* An action whose first argument is no identifier, or an identifier with
\* no ParseFunc, is passed over.
ParseActionEarlier(st, i, pf) ==
    LET cmdArgs == st.nodes[i].args IN
    IF cmdArgs = <<>> THEN st
    ELSE IF cmdArgs[1].type # "NodeIdentifier" THEN st
    ELSE IF cmdArgs[1].ident \notin DOMAIN pf THEN st
    ELSE ParseIdentifier(st, i, pf)

RECURSIVE ParseNodesEarlier(_, _, _)
ParseNodesEarlier(st, i, pf) ==
    IF i > Len(st.nodes) \/ st.err # NoError THEN st
    ELSE IF st.nodes[i].type = "NodeText"
    THEN LET m == MatchText(st.reader, st.nodes[i].text, 1)
         IN  ParseNodesEarlier([st EXCEPT !.reader = m.reader, !.err = m.err], i + 1, pf)
    ELSE IF st.nodes[i].type = "NodeAction"
    THEN ParseNodesEarlier(ParseActionEarlier(st, i, pf), i + 1, pf)
    ELSE ParseNodesEarlier(st, i + 1, pf)

(* --------------------------- the callers ------------------------------- *)

\* The template texts a caller passes to Parse: up to MaxItems items, no two
\* literal spans next to each other (the lexer makes one text node of them).
LiteralAlphabet == {"a", " "}

TextItems ==
    {TextItem(s) : s \in UNION {[1..k -> LiteralAlphabet] : k \in 1..MaxText}}

ActionItems ==
    {ActionItem("ident", "isUUID", <<>>, pad, 0) : pad \in 0..MaxPad}
    \cup {ActionItem("ident", "isUUID", <<>>, 0, 1),
          ActionItem("ident", "inRange", <<"1", "2">>, 0, 0),
          ActionItem("ident", "isNonExistent", <<>>, 0, 0),
          ActionItem("ident", "print", <<>>, 0, 0),
          ActionItem("field", "Bar", <<>>, 0, 0),
          ActionItem("number", "45", <<>>, 0, 0),
          IfItem("Bar", <<"a">>)}

Items == TextItems \cup ActionItems

Templates ==
    {t \in UNION {[1..k -> Items] : k \in 0..MaxItems} :
        \A i \in 1..(Len(t) - 1) : ~(t[i].k = "text" /\ t[i + 1].k = "text")}

\* The delimiters a caller passes to Delims.
DelimChoices == {<<"", "">>, <<"<", ">">>, <<"[[[", "]]]">>}

\* The two revisions of Templatex in the repository.
Current == "templatex.go"
Earlier == "part_000"
Revisions == {Current, Earlier}

(* --------------------------- Templatex --------------------------------- *)

NoFuncs == [name \in {} |-> ""]

\* New(tpl): the Templatex struct.  tpl is the *template.Template: its tree,
\* the names of its functions and its delimiters.
New ==
    [tpl |-> [tree |-> NoTree, funcs |-> {}, left |-> "", right |-> ""],
     input |-> NoReader,
     parseFuncs |-> NoFuncs,
     leftDelimLength |-> 2,
     rightDelimLength |-> 2]

TemplatexFuncs(t, funcMap) ==
    [t EXCEPT !.tpl.funcs = @ \cup DOMAIN funcMap,
              !.parseFuncs = [name \in DOMAIN @ \cup DOMAIN funcMap |->
                                 IF name \in DOMAIN funcMap THEN funcMap[name]
                                 ELSE @[name]]]

TemplatexInput(t, x) == [t EXCEPT !.input = NewReader(x)]

TemplatexDelims(t, left, right) ==
    [t EXCEPT !.tpl.left = left, !.tpl.right = right,
              !.leftDelimLength = Len(left), !.rightDelimLength = Len(right)]

\* The loop of Parse over the tree's nodes, in revision rev.
ParseLoop(rev, t, nodes, d) ==
    IF rev = Current
    THEN ParseNodes(ParseState(nodes, t.input), 1, t.parseFuncs,
                    t.leftDelimLength, t.rightDelimLength, d)
    ELSE ParseNodesEarlier(ParseState(nodes, t.input), 1, t.parseFuncs)

\* Parse(text, data): the error returned, the Templatex after the call and
\* the Discard calls made.  The tree is rewritten in place, so what the loop
\* did before an error stays in t.
TemplatexParse(rev, t, items, d) ==
    IF ~t.input.open
    THEN [err |-> ErrorInputRequired, t |-> t, calls |-> <<>>]
    ELSE LET c == TemplateParse(t.tpl.tree, items, t.tpl.funcs, t.tpl.left, t.tpl.right)
         IN  IF c.err # NoError
             THEN [err |-> c.err, t |-> t, calls |-> <<>>]
             ELSE LET st == ParseLoop(rev, t, c.tree.nodes, d) IN
                  [err |-> st.err,
                   t |-> [t EXCEPT !.tpl.tree = [set |-> TRUE, nodes |-> st.nodes],
                                   !.input = st.reader],
                   calls |-> st.calls]

\* Execute(wr, data): the error returned and what was written to wr.
TemplatexExecute(t, d) == TemplateExecute(t.tpl.tree, t.tpl.funcs, d)

(* ------------------------------ state ---------------------------------- *)

VARIABLES
    revision,     \* the revision of Templatex that is built
    text,         \* the template text the caller passes to Parse
    data,         \* the context value the caller passes to Parse and Execute
    t,            \* the Templatex
    ret,          \* what the last call returned
    wr,           \* the writer of the last Execute call
    discards,     \* the Discard calls of the last Parse call
    resolutions   \* the number of Input calls so far

vars == <<revision, text, data, t, ret, wr, discards, resolutions>>

env == <<revision, text, data>>

\* ret.op is the method called, ret.err the error it returned, ret.nilT
\* whether Parse returned a nil *Templatex, ret.parse the error of the Parse
\* call of the resolution under way ("none" before it).
Init ==
    /\ revision \in Revisions
    /\ text \in Templates
    /\ data \in Contexts
    /\ t = New
    /\ ret = [op |-> "New", err |-> NoError, nilT |-> FALSE, parse |-> "none"]
    /\ wr = <<>>
    /\ discards = <<>>
    /\ resolutions = 0

\* A builder call returns t: no error, and no Parse result is held any more.
Returned(op) ==
    /\ ret' = [op |-> op, err |-> NoError, nilT |-> FALSE, parse |-> "none"]
    /\ wr' = <<>>
    /\ discards' = <<>>

\* The caller's calls follow the chain of the README and the tests:
\*   New(tpl).Funcs(funcMap)[.Delims(left, right)].Input(x).Parse(text, data),
\* then Execute, then Input again for the next resolution, MaxResolutions
\* times at most.  Parse may also be called before any Input.
Funcs(funcMap) ==
    /\ ret.op = "New"
    /\ t' = TemplatexFuncs(t, funcMap)
    /\ Returned("Funcs")
    /\ UNCHANGED <<env, resolutions>>

Input(x) ==
    /\ ret.op \in {"Funcs", "Delims", "Parse", "Execute"}
    /\ resolutions < MaxResolutions
    /\ t' = TemplatexInput(t, x)
    /\ resolutions' = resolutions + 1
    /\ Returned("Input")
    /\ UNCHANGED env

\* The earlier revision has no Delims.
Delims(left, right) ==
    /\ revision = Current
    /\ ret.op = "Funcs"
    /\ t' = TemplatexDelims(t, left, right)
    /\ Returned("Delims")
    /\ UNCHANGED <<env, resolutions>>

Parse ==
    /\ ret.op \in {"Funcs", "Delims", "Input"}
    /\ LET r == TemplatexParse(revision, t, text, data) IN
       /\ t' = r.t
       /\ discards' = r.calls
       /\ ret' = [op |-> "Parse", err |-> r.err, nilT |-> r.err # NoError,
                  parse |-> r.err]
    /\ wr' = <<>>
    /\ UNCHANGED <<env, resolutions>>

Execute ==
    /\ ret.op = "Parse"
    /\ LET e == TemplatexExecute(t, data) IN
       /\ wr' = e.out
       /\ ret' = [op |-> "Execute", err |-> e.err, nilT |-> FALSE, parse |-> ret.parse]
    /\ UNCHANGED <<env, t, discards, resolutions>>

Next ==
    \/ Funcs(TestFuncMap)
    \/ \E x \in Inputs : Input(x)
    \/ \E d \in DelimChoices : Delims(d[1], d[2])
    \/ Parse
    \/ Execute

Spec == Init /\ [][Next]_vars

(* ============================== claims ================================= *)

\* The template is made of literal text, registered placeholders and field
\* references only.
PlainTemplate(items) ==
    \A i \in 1..Len(items) :
        \/ items[i].k \in {"text", "field"}
        \/ items[i].k = "ident" /\ items[i].name \in DOMAIN t.parseFuncs

\* x has s at byte offset p.
HasAt(x, p, s) == p + Len(s) <= Len(x) /\ SubSeq(x, p + 1, p + Len(s)) = s

\* The template fully matches x from byte offset p on: the literal spans are
\* equal, each field reference stands as it renders, each placeholder's
\* extractor succeeds where the placeholder stands and its validator accepts
\* the extracted string and returns it, and no byte of x is left over.
RECURSIVE Matches(_, _, _, _)
Matches(items, x, p, d) ==
    IF items = <<>> THEN p = Len(x)
    ELSE LET it == Head(items) IN
         CASE it.k = "text" ->
                HasAt(x, p, it.s) /\ Matches(Tail(items), x, p + Len(it.s), d)
           [] it.k = "field" ->
                LET v == EvalField(it.name, d) IN
                /\ v.err = NoError
                /\ HasAt(x, p, v.value)
                /\ Matches(Tail(items), x, p + Len(v.value), d)
           [] it.k = "ident" ->
                LET r == CallParseFunc(TestFuncMap[it.name],
                                       [open |-> TRUE, text |-> x, pos |-> p])
                    v == CallValidator(it.name,
                                       NewArgNodes(r.args) \o NumberArgs(it.args))
                IN  /\ r.err = NoError
                    /\ Len(r.args) = 1
                    /\ v.err = NoError
                    /\ v.value = r.args[1]
                    /\ Matches(Tail(items), x, r.reader.pos, d)
           [] OTHER -> FALSE

\* Built from templatex.go and left with the default delimiters.
CurrentDefault ==
    /\ revision = Current
    /\ t.tpl.left = "" /\ t.tpl.right = ""
    /\ t.leftDelimLength = 2 /\ t.rightDelimLength = 2

\* C1 (round trip): for a template of literal text, registered placeholders
\* and field references and an input it fully matches, Parse succeeds,
\* Execute succeeds and the text written equals the input.
C1_RoundTrip ==
    (/\ CurrentDefault
     /\ ret.op \in {"Parse", "Execute"}
     /\ t.input.open
     /\ PlainTemplate(text)
     /\ Matches(text, t.input.text, 0, data))
    => /\ ret.parse = NoError
       /\ ret.op = "Execute" => (ret.err = NoError /\ wr = t.input.text)

\* C2 (acceptance is exact): when Parse and Execute both return no error,
\* the text written equals the input.
C2_AcceptanceExact ==
    (/\ CurrentDefault
     /\ t.input.open
     /\ ret.op = "Execute"
     /\ ret.parse = NoError
     /\ ret.err = NoError)
    => wr = t.input.text

\* The input has a byte that differs from the byte of a literal span that
\* stands there, everything before the span being matched.
RECURSIVE LiteralDiffers(_, _, _, _)
LiteralDiffers(items, x, p, d) ==
    IF items = <<>> THEN FALSE
    ELSE LET it == Head(items) IN
         CASE it.k = "text" ->
                \/ \E j \in 1..Len(it.s) : p + j <= Len(x) /\ x[p + j] # it.s[j]
                \/ HasAt(x, p, it.s) /\ LiteralDiffers(Tail(items), x, p + Len(it.s), d)
           [] it.k = "field" ->
                LET v == EvalField(it.name, d) IN
                /\ v.err = NoError
                /\ HasAt(x, p, v.value)
                /\ LiteralDiffers(Tail(items), x, p + Len(v.value), d)
           [] it.k = "ident" ->
                /\ it.name \in DOMAIN TestFuncMap
                /\ LET r == CallParseFunc(TestFuncMap[it.name],
                                          [open |-> TRUE, text |-> x, pos |-> p])
                   IN  r.err = NoError /\ LiteralDiffers(Tail(items), x, r.reader.pos, d)
           [] OTHER -> FALSE

\* The error the tests name ErrorInputValidation.  No revision declares it;
\* the earlier revision's errors.New("input does not match template") is
\* taken for it.
IsErrorInputValidation(err) == err = ErrInputMismatch

\* C3 (literal mismatch detection): when the input differs from the template
\* in a byte of a literal span, Parse fails with ErrorInputValidation.
C3_LiteralMismatch ==
    (/\ t.input.open
     /\ ret.op = "Parse"
     /\ PlainTemplate(text)
     /\ LiteralDiffers(text, t.input.text, 0, data))
    => IsErrorInputValidation(ret.err)

C5_UnsupportedNode ==
    (/\ CurrentDefault
     /\ t.input.open
     /\ ret.op = "Parse"
     /\ text # <<>>
     /\ text[1].k \in {"number", "if"}
     /\ \A i \in 2..Len(text) : text[i].k = "text")
    => ret.err = ErrorUnsupportedNode

\* C6 (extractor/validator composition): when Parse succeeded and a validator
\* rejects at Execute, Execute returns the validation error and nothing has
\* been written to the writer.
C6_RejectWritesNothing ==
    (/\ CurrentDefault
     /\ t.input.open
     /\ ret.op = "Execute"
     /\ ret.parse = NoError
     /\ ret.err = ErrExecCall)
    => wr = <<>>

\* What a Templatex built with the same FuncMap and no Delims call returns
\* for input x.
DefaultParse(x) ==
    TemplatexParse(Current, TemplatexInput(TemplatexFuncs(New, TestFuncMap), x),
                   text, data)

\* C7 (delimiter configuration): with any delimiters passed to Delims, Parse
\* and Execute give the outcome that the default delimiters give for the
\* same template and input.
C7_DelimsEquivalent ==
    (/\ revision = Current
     /\ t.input.open
     /\ ret.op \in {"Parse", "Execute"})
    => LET p == DefaultParse(t.input.text)
           e == TemplatexExecute(p.t, data)
       IN  /\ ret.parse = p.err
           /\ ret.op = "Execute" => (ret.err = e.err /\ wr = e.out)

\* What a freshly built Templatex with the registry and the delimiters of t
\* returns for input x.
FreshParse(x) ==
    TemplatexParse(revision,
                   [t EXCEPT !.tpl.tree = NoTree, !.input = NewReader(x)],
                   text, data)

\* C8 (repeated resolution): the outcome of each resolution on one Templatex
\* is the outcome of a fresh Templatex on the same input: the same error, the
\* same rewritten tree (no string of an earlier resolution among the
\* arguments), the same reader position, the same text written.
C8_RepeatedResolution ==
    (t.input.open /\ ret.op \in {"Parse", "Execute"})
    => LET p == FreshParse(t.input.text)
           e == TemplatexExecute(p.t, data)
       IN  /\ ret.parse = p.err
           /\ t = p.t
           /\ ret.op = "Execute" => (ret.err = e.err /\ wr = e.out)

\* A second resolution that extracted a value and rendered it.
C8_Witness ==
    /\ resolutions = 2
    /\ ret.op = "Execute"
    /\ ret.parse = NoError /\ ret.err = NoError
    /\ wr = t.input.text
    /\ \E i \in 1..Len(t.tpl.tree.nodes) :
           /\ t.tpl.tree.nodes[i].type = "NodeAction"
           /\ Len(t.tpl.tree.nodes[i].args) = 2
           /\ t.tpl.tree.nodes[i].args[2].type = "NodeString"

LiteralBefore(items, i) ==
    IF i > 1 /\ items[i - 1].k = "text" THEN Len(items[i - 1].s) ELSE 0

\* C10 (bytes to discard): before an action node Parse discards as many bytes
\* as the literal text between the previous action and this one has, and
\* never a negative count.
C10_BytesToDiscard ==
    (CurrentDefault /\ ret.op = "Parse")
    => \A c \in 1..Len(discards) :
           discards[c].kind = "before"
           => discards[c].n = LiteralBefore(text, discards[c].node)

\* The Discard call before node i succeeded, so Parse went on to handle the
\* node; the reader then stood at ExtractPos.
Handled(c) ==
    /\ discards[c].kind = "before"
    /\ 0 <= discards[c].n /\ discards[c].n <= discards[c].remain

ExtractPos(c) == Len(t.input.text) - discards[c].remain + discards[c].n

\* What the extractor of a name returns at position p of the input.
Extracted(name, p) ==
    CallParseFunc(t.parseFuncs[name], [open |-> TRUE, text |-> t.input.text, pos |-> p]).args

\* The validator of a name called with the extracted string s and the
\* static arguments args.
Validated(name, s, args) ==
    IF name = "isUUID" THEN ValidateIsUUID(s)
    ELSE ValidateInRange(s, NumberValue(args[1]), NumberValue(args[2]))

\* The first action of the template and the literal text before it.
FirstAction == CHOOSE i \in 1..Len(text) :
    text[i].k # "text" /\ \A j \in 1..(i - 1) : text[j].k = "text"
TextBefore(i) == IF i > 1 THEN text[i - 1].s ELSE <<>>

IsPrefix(p, w) == Len(p) <= Len(w) /\ SubSeq(w, 1, Len(p)) = p

LastAction(i) == \A j \in (i + 1)..Len(text) : text[j].k = "text"

ReaderAlphabet == {"a", " ", "\n", "\"", "'"}
ReaderInputs == UNION {[1..k -> ReaderAlphabet] : k \in 0..MaxRead}
StopSets == SUBSET {"a", " ", "'"}

\* A reader over x of which p bytes have been consumed.
ReaderInit ==
    /\ revision = Current
    /\ text = <<>>
    /\ data = NilData
    /\ \E x \in ReaderInputs : \E p \in 0..Len(x) :
           t = [New EXCEPT !.input = Discard(NewReader(x), p).reader]
    /\ ret = [op |-> "NewReader", err |-> NoError, from |-> 0, stop |-> {}]
    /\ wr = <<>>
    /\ discards = <<>>
    /\ resolutions = 0

ReaderReturned(op, r, delimiters) ==
    /\ t' = [t EXCEPT !.input = r.reader]
    /\ wr' = r.result
    /\ ret' = [op |-> op, err |-> r.err, from |-> t.input.pos, stop |-> delimiters]
    /\ UNCHANGED <<env, discards, resolutions>>

CallReadUntil(delimiters) ==
    ReaderReturned("ReadUntil", ReadUntil(t.input, delimiters), delimiters)

CallReadUntilWhitespace ==
    ReaderReturned("ReadUntilWhitespace", ReadUntilWhitespace(t.input), {})

CallReadQuotedString ==
    ReaderReturned("ReadQuotedString", ReadQuotedString(t.input), {})

ReaderNext ==
    \/ \E delimiters \in StopSets : CallReadUntil(delimiters)
    \/ CallReadUntilWhitespace
    \/ CallReadQuotedString

ReaderSpec == ReaderInit /\ [][ReaderNext]_vars

\* The stop set a reader call is said to have.
StopSetOf(call) ==
    CASE call.op = "ReadUntil" -> call.stop
      [] call.op = "ReadUntilWhitespace" -> {" ", "\t", "\n", "\r"}
      [] call.op = "ReadQuotedString" -> {"\"", "'"}

\* C13 (ReadUntil): a reader call returns no error and the longest run of
\* characters from the position it started at that holds no character of
\* its stop set; the reader is left on the first stop character or at the
\* end of the input, never before where it started.  ReadUntilWhitespace
\* stops at space, tab, newline and carriage return, ReadQuotedString at the
\* double and the single quote.
C13_ReadUntil ==
    ret.op \in {"ReadUntil", "ReadUntilWhitespace", "ReadQuotedString"}
    => LET x == t.input.text
           p == ret.from
           q == t.input.pos
           S == StopSetOf(ret)
       IN  /\ ret.err = NoError
           /\ p <= q /\ q <= Len(x)
           /\ wr = SubSeq(x, p + 1, q)
           /\ \A j \in (p + 1)..q : x[j] \notin S
           /\ q = Len(x) \/ x[q + 1] \in S

\* A ReadUntilWhitespace call from inside the input that read a character
\* and stopped on a newline.
C13_Witness ==
    /\ ret.op = "ReadUntilWhitespace"
    /\ ret.from > 0
    /\ wr # <<>>
    /\ t.input.pos < Len(t.input.text)
    /\ t.input.text[t.input.pos + 1] = "\n"

====
